---- MODULE Spec2Model ----
(***************************************************************************)
(* project-finder: the project-root resolution and deduplication engine.   *)
(* ProjectFinder::find_projects spawns one task per configured path; each  *)
(* task enumerates .git directories and marker files, resolves every       *)
(* marker hit to a project root and merges it into the shared set.         *)
(*                                                                         *)
(* A path is the sequence of its components; an absolute path starts with  *)
(* the root component "/".  The directory tree is a chain                  *)
(*   /  /r  /r/a  /r/a/b ...                                               *)
(* and one directory /b beside it; the directories carry .git directories,  *)
(* other directories that fd's pattern for .git matches, and files chosen   *)
(* in Init.                                                                 *)
(***************************************************************************)
EXTENDS Integers, Sequences, FiniteSets, TLC

\* ---------------------------------------------------------------- bounds
TreeDepth == 2
MaxPaths == 2
MaxFiles == 2
MaxGit == 1
MaxHits == 3
MaxResults == 2
ExtraTasks == 1

\* ------------------------------------------------------ program constants
PermitCount == 8
DefaultDepth == 5

MARKER_PATTERNS ==
    << "package.json", "pnpm-workspace.yaml", "lerna.json", "Cargo.toml",
       "go.mod", "pyproject.toml", "CMakeLists.txt", "Makefile", "justfile",
       "Justfile", "deno.json", "deno.jsonc", "bunfig.toml" >>

MarkerNames == { MARKER_PATTERNS[i] : i \in 1..Len(MARKER_PATTERNS) }

\* ------------------------------------------------------------------ paths
DirNames == << "r", "a", "b", "c", "d" >>

ChainPath(n) == [i \in 1..(n + 1) |-> IF i = 1 THEN "/" ELSE DirNames[i - 1]]

Dirs == { ChainPath(k) : k \in 0..TreeDepth }

\* a directory beside the chain
SideDir == << "/", "b" >>

AllDirs == Dirs \cup { SideDir }

\* a configured path that is not an existing directory
Missing == << "/", "nope" >>

\* std::path::Path::parent: None for the root and for the empty path
HasParent(p) == Len(p) > 0 /\ p # << "/" >>

Parent(p) == SubSeq(p, 1, Len(p) - 1)

\* Path::as_os_str().is_empty()
IsEmptyPath(p) == p = << >>

\* Path::starts_with: base is a component-wise prefix of p
StartsWith(p, base) ==
    /\ Len(base) <= Len(p)
    /\ SubSeq(p, 1, Len(base)) = base

\* Ord for Path: lexicographic on components; the root component sorts
\* before every normal component, normal components sort bytewise
CompRank(c) ==
    CASE c = "/" -> 0
      [] c = "a" -> 1
      [] c = "b" -> 2
      [] c = "c" -> 3
      [] c = "d" -> 4
      [] c = "nope" -> 5
      [] c = "r" -> 6
      [] OTHER -> 7

RECURSIVE PathLess(_, _)
PathLess(p, q) ==
    IF p = << >> THEN q # << >>
    ELSE IF q = << >> THEN FALSE
    ELSE IF CompRank(Head(p)) # CompRank(Head(q))
         THEN CompRank(Head(p)) < CompRank(Head(q))
         ELSE PathLess(Tail(p), Tail(q))

\* Vec::sort of the collected set
RECURSIVE SortPaths(_)
SortPaths(S) ==
    IF S = {} THEN << >>
    ELSE LET m == CHOOSE x \in S : \A y \in S \ {x} : PathLess(x, y)
         IN  << m >> \o SortPaths(S \ {m})

\* variant: the tail of the list is kept
TruncateLast(s, n) == IF Len(s) > n THEN SubSeq(s, Len(s) - n + 1, Len(s)) ELSE s

\* Vec::truncate
Truncate(s, n) == IF Len(s) > n THEN SubSeq(s, 1, n) ELSE s

\* ------------------------------------------------------------------ errors
NoError == [kind |-> "", op |-> "", path |-> << >>]

ErrPathNotFound(p) == [kind |-> "PathNotFound", op |-> "", path |-> p]

ErrFindGit ==
    [kind |-> "CommandExecutionFailed",
     op |-> "Failed to find git repositories", path |-> << >>]

ErrSpawnFd ==
    [kind |-> "CommandExecutionFailed", op |-> "Failed to spawn fd",
     path |-> << >>]

ErrReadFile(file) ==
    [kind |-> "CommandExecutionFailed", op |-> "Failed to read file",
     path |-> file]

\* ------------------------------------------------------------- variables
VARIABLES
    config,               \* Config: paths, depth, max_results
    fs,                   \* the directory tree: .git directories and files
    env,                  \* outcome of each task's fd invocations
    discovered_projects,  \* ProjectSet
    workspace_cache,      \* WorkspaceCache: dir -> bool
    root_cache,           \* RootCache: (dir, marker type) -> root
    permits,              \* free permits of the semaphore
    task,                 \* per-path task: position and locals
    mainpc,               \* position of find_projects
    nextPath,             \* index of the path the spawn loop is at
    returned,             \* value returned by find_projects
    rootReturns,          \* history: values returned by find_project_root
    wsReturns,            \* history: values returned by is_workspace_root
    markerChecks,         \* history: candidate, set read and verdict of each check
    rerun,                \* TRUE in the second run of the program
    prevResult,           \* result of the first run
    prevOrders,           \* marker iteration orders of the first run
    held                  \* lock guards a task holds while it is suspended

vars ==
    << config, fs, env, discovered_projects, workspace_cache, root_cache,
       permits, task, mainpc, nextPath, returned, rootReturns, wsReturns,
       markerChecks, rerun, prevResult, prevOrders, held >>

Tasks == 1..Len(config.paths)

\* ------------------------------------------------------------ file system
\* Content of a file: its lines, or unreadable (read_to_string fails)
Readable(lines) == [readable |-> TRUE, lines |-> lines]

Unreadable == [readable |-> FALSE, lines |-> << >>]

FilesAt(dir, name) == { f \in fs.files : f.dir = dir /\ f.name = name }

\* tokio::fs::metadata(path).is_ok() / Path::exists for dir.join(name)
path_exists(dir, name) == FilesAt(dir, name) # {}

\* dir.join(".git").is_dir()
HasGitDir(dir) == dir \in fs.git

\* PathBuf::is_dir of a configured path
IsDir(p) == p \in AllDirs

\* the substrings of a line that the workspace regexes look for
Needles(line) ==
    CASE line = "\"workspaces\": []" -> { "\"workspaces\"", "workspaces" }
      [] line = "\"workspace\": {}" -> { "\"workspace\"" }
      [] line = "\"imports\": {}" -> { "\"imports\"" }
      [] line = "workspaces = true" -> { "workspaces" }
      [] line = "[workspace]" -> { "[workspace]" }
      [] OTHER -> {}

\* Regex::is_match on the whole file content.  "^" has no multi-line flag:
\* it matches at the start of the text only.  "." matches any character
\* but a line feed.
RegexIsMatch(pattern, lines) ==
    CASE pattern = "(\"workspaces\"|\"workspace\")" ->
           \E i \in 1..Len(lines) :
               Needles(lines[i]) \cap { "\"workspaces\"", "\"workspace\"" } # {}
      [] pattern = "(\"workspaces\"|\"imports\")" ->
           \E i \in 1..Len(lines) :
               Needles(lines[i]) \cap { "\"workspaces\"", "\"imports\"" } # {}
      [] pattern = "workspaces" ->
           \E i \in 1..Len(lines) : "workspaces" \in Needles(lines[i])
      [] pattern = "^\\[workspace\\]" ->
           Len(lines) > 0 /\ "[workspace]" \in Needles(lines[1])
      [] pattern = "." ->
           \E i \in 1..Len(lines) : lines[i] # ""
      [] OTHER -> FALSE

\* Result<bool>
OkBool(b) == [err |-> FALSE, val |-> b, e |-> NoError]

ErrBool(e) == [err |-> TRUE, val |-> FALSE, e |-> e]

\* variant: a file that cannot be read counts as not matching
grep_file_in_memoryLenient(dir, name, pattern) ==
    LET f == CHOOSE x \in FilesAt(dir, name) : TRUE
    IN  IF FilesAt(dir, name) = {} \/ ~f.content.readable
        THEN OkBool(FALSE)
        ELSE OkBool(RegexIsMatch(pattern, f.content.lines))

\* grep_file_in_memory(dir.join(name), pattern)
grep_file_in_memory(dir, name, pattern) ==
    LET f == CHOOSE x \in FilesAt(dir, name) : TRUE
    IN  IF FilesAt(dir, name) = {} \/ ~f.content.readable
        THEN ErrBool(ErrReadFile(dir \o << name >>))
        ELSE OkBool(RegexIsMatch(pattern, f.content.lines))

\* --------------------------------------------------------- search provider
\* names the combined fd regex matches: a marker name anywhere in the name
FdRegexMatches(name) == name \in MarkerNames \cup { "Makefile.am" }

\* depth at which fd reports an entry of directory d when searching dir
EntryDepth(dir, d) == Len(d) - Len(dir) + 1

\* the directories fd may report for "--type d": .git directories and
\* directories called egit
DirEntries ==
    { [dir |-> d, name |-> ".git"] : d \in fs.git }
        \cup { [dir |-> d, name |-> "egit"] : d \in fs.egit }

\* the fd regex ^.git$ on a directory name: any one character, then git
FdGitRegexMatches(name) == name \in { ".git", "egit" }

\* find_git_repos: the parent of every reported directory within max_depth
GitRepos(dir, max_depth) ==
    { e.dir : e \in { x \in DirEntries : /\ FdGitRegexMatches(x.name)
                                         /\ StartsWith(x.dir, dir)
                                         /\ EntryDepth(dir, x.dir) <= max_depth } }

\* lines printed by fd for the combined pattern
FdFileLines(dir, max_depth) ==
    { f.dir \o << f.name >> :
        f \in { x \in fs.files : /\ StartsWith(x.dir, dir)
                                 /\ EntryDepth(dir, x.dir) <= max_depth
                                 /\ FdRegexMatches(x.name) } }

FileName(path) == path[Len(path)]

\* the lines fd has printed when it exits: all of them when it exits with
\* status zero, the ones it reached when it exits with another status
FdOutput(dir, max_depth, outcome) ==
    IF outcome = "nonzero"
    THEN SUBSET FdFileLines(dir, max_depth)
    ELSE { FdFileLines(dir, max_depth) }

CollectMatchesContaining(lines) ==
    [p \in MarkerNames |->
        { path \in lines :
            \/ FileName(path) = p
            \/ FileName(path) = "Makefile.am" /\ p = "Makefile" }]

\* find_files, the results map: an entry for each pattern, a line is
\* pushed under the key equal to its file name
CollectMatches(lines) ==
    [p \in MarkerNames |-> { path \in lines : FileName(path) = p }]

\* find_files when fd exits with status zero
find_files(dir, max_depth) == CollectMatches(FdFileLines(dir, max_depth))

\* the (pattern, path) pairs of a map returned by find_files
HitsOf(marker_map) ==
    UNION { { [pattern |-> p, path |-> path] : path \in marker_map[p] } :
              p \in DOMAIN marker_map }

MarkerHits(dir, max_depth) == HitsOf(find_files(dir, max_depth))

\* iteration orders of "for (pattern, paths) in marker_map, for path in
\* paths": the HashMap yields the patterns in any order, fd prints the
\* paths of one pattern in any order
IterationOrders(hits) ==
    LET n == Cardinality(hits)
    IN  { s \in [1..n -> hits] :
            /\ \A i, j \in 1..n : i # j => s[i] # s[j]
            /\ \A i, j, k \in 1..n :
                 (i < j /\ j < k /\ s[i].pattern = s[k].pattern)
                     => s[j].pattern = s[i].pattern }

\* --------------------------------------------------------- classification
\* variant: only deno.json is a Deno manifest
MarkerFromStrDenoOnly(s) ==
    CASE s = "package.json" -> [tag |-> "PackageJson", name |-> ""]
      [] s = "Cargo.toml" -> [tag |-> "CargoToml", name |-> ""]
      [] s = "deno.json" -> [tag |-> "DenoJson", name |-> ""]
      [] s \in { "Makefile", "CMakeLists.txt", "justfile", "Justfile" } ->
           [tag |-> "BuildFile", name |-> s]
      [] OTHER -> [tag |-> "OtherConfig", name |-> s]

\* MarkerType::from_str
MarkerFromStr(s) ==
    CASE s = "package.json" -> [tag |-> "PackageJson", name |-> ""]
      [] s = "Cargo.toml" -> [tag |-> "CargoToml", name |-> ""]
      [] s \in { "deno.json", "deno.jsonc" } ->
           [tag |-> "DenoJson", name |-> ""]
      [] s \in { "Makefile", "CMakeLists.txt", "justfile", "Justfile" } ->
           [tag |-> "BuildFile", name |-> s]
      [] OTHER -> [tag |-> "OtherConfig", name |-> s]

\* format!("{marker_type:?}"): the variant name and the carried file name
DebugFormat(marker_type) == << marker_type.tag, marker_type.name >>

\* variant: the key forgets the directory
CacheKeyNoDir(dir, marker_type) == << << >>, DebugFormat(marker_type) >>

\* the key of RootCache
CacheKey(dir, marker_type) == << dir, DebugFormat(marker_type) >>

\* ------------------------------------------------------ workspace detector
workspace_patterns ==
    << [file |-> "package.json", pattern |-> "(\"workspaces\"|\"workspace\")"],
       [file |-> "deno.json", pattern |-> "(\"workspaces\"|\"imports\")"],
       [file |-> "deno.jsonc", pattern |-> "(\"workspaces\"|\"imports\")"],
       [file |-> "bunfig.toml", pattern |-> "workspaces"],
       [file |-> "Cargo.toml", pattern |-> "^\\[workspace\\]"],
       [file |-> "rush.json", pattern |-> "."],
       [file |-> "nx.json", pattern |-> "."],
       [file |-> "turbo.json", pattern |-> "."] >>

workspace_files ==
    << "pnpm-workspace.yaml", "lerna.json", "yarn.lock", ".yarnrc.yml",
       "workspace.json" >>

\* variant: the content match is made without the existence probe
RECURSIVE ScanWithoutProbe(_, _)
ScanWithoutProbe(dir, i) ==
    IF i > Len(workspace_patterns)
    THEN OkBool(\E j \in 1..Len(workspace_files) :
                    path_exists(dir, workspace_files[j]))
    ELSE LET wp == workspace_patterns[i]
             g == grep_file_in_memory(dir, wp.file, wp.pattern)
         IN  IF g.err THEN g
             ELSE IF g.val THEN OkBool(TRUE)
             ELSE ScanWithoutProbe(dir, i + 1)

\* the two loops of is_workspace_root after a cache miss, from entry i of
\* workspace_patterns on; a failing content match ends the scan
RECURSIVE ScanWorkspacePatterns(_, _)
ScanWorkspacePatterns(dir, i) ==
    IF i > Len(workspace_patterns)
    THEN OkBool(\E j \in 1..Len(workspace_files) :
                    path_exists(dir, workspace_files[j]))
    ELSE LET wp == workspace_patterns[i]
             g == grep_file_in_memory(dir, wp.file, wp.pattern)
         IN  IF ~path_exists(dir, wp.file) THEN ScanWorkspacePatterns(dir, i + 1)
             ELSE IF g.err THEN g
             ELSE IF g.val THEN OkBool(TRUE)
             ELSE ScanWorkspacePatterns(dir, i + 1)

ComputeWorkspaceRoot(dir) == ScanWorkspacePatterns(dir, 1)

\* ------------------------------------------------------------ root resolver
\* Result<PathBuf>
OkPath(p) == [err |-> FALSE, val |-> p, e |-> NoError]

ErrPath(e) == [err |-> TRUE, val |-> << >>, e |-> e]

\* the loop "while let Some(parent) = current.parent()" stops when there
\* is no parent or the parent is the empty path
ClimbEnds(current) == ~HasParent(current) \/ IsEmptyPath(Parent(current))

\* variant: the manifest of the directory the loop stands in is tested,
\* not the manifest of its parent
RECURSIVE CargoClimbInclusive(_, _)
CargoClimbInclusive(current, result) ==
    IF ClimbEnds(current) THEN OkPath(result)
    ELSE LET parent == Parent(current)
             g == grep_file_in_memory(current, "Cargo.toml", "^\\[workspace\\]")
         IN  IF path_exists(current, "Cargo.toml") /\ g.err THEN ErrPath(g.e)
             ELSE IF path_exists(current, "Cargo.toml") /\ g.val
                  THEN OkPath(current)
             ELSE IF HasGitDir(parent) THEN OkPath(parent)
             ELSE CargoClimbInclusive(parent, result)

\* MarkerType::CargoToml branch; result is the value when the loop ends
RECURSIVE CargoClimb(_, _)
CargoClimb(current, result) ==
    IF ClimbEnds(current) THEN OkPath(result)
    ELSE LET parent == Parent(current)
             g == grep_file_in_memory(parent, "Cargo.toml", "^\\[workspace\\]")
         IN  IF path_exists(parent, "Cargo.toml") /\ g.err THEN ErrPath(g.e)
             ELSE IF path_exists(parent, "Cargo.toml") /\ g.val
                  THEN OkPath(parent)
             ELSE IF HasGitDir(parent) THEN OkPath(parent)
             ELSE CargoClimb(parent, result)

\* variant: the loop does not look for .git
RECURSIVE BuildFileLoopPastGit(_, _, _, _)
BuildFileLoopPastGit(name, current, highest_dir, result) ==
    IF ClimbEnds(current) THEN [result |-> result, highest_dir |-> highest_dir]
    ELSE LET parent == Parent(current)
             highest == IF path_exists(parent, name) THEN parent
                        ELSE highest_dir
         IN  BuildFileLoopPastGit(name, parent, highest, result)

\* MarkerType::BuildFile(name) branch: the loop, then "if result == dir"
RECURSIVE BuildFileLoop(_, _, _, _)
BuildFileLoop(name, current, highest_dir, result) ==
    IF ClimbEnds(current) THEN [result |-> result, highest_dir |-> highest_dir]
    ELSE LET parent == Parent(current)
             highest == IF path_exists(parent, name) THEN parent
                        ELSE highest_dir
         IN  IF HasGitDir(parent)
             THEN [result |-> parent, highest_dir |-> highest]
             ELSE BuildFileLoop(name, parent, highest, result)

\* variant: the first parent carrying the build file is kept
BuildFileClimbNearest(name, dir) ==
    LET l == BuildFileLoop(name, dir, dir, dir)
        nearest == IF HasParent(dir) /\ path_exists(Parent(dir), name)
                   THEN Parent(dir) ELSE l.highest_dir
    IN  OkPath(IF l.result = dir THEN nearest ELSE l.result)

BuildFileClimb(name, dir) ==
    LET l == BuildFileLoop(name, dir, dir, dir)
    IN  OkPath(IF l.result = dir THEN l.highest_dir ELSE l.result)

\* variant: the climb also stops at a parent that holds a file of the
\* existence-only workspace list
RECURSIVE OtherClimbWorkspace(_, _)
OtherClimbWorkspace(current, result) ==
    IF ClimbEnds(current) THEN OkPath(result)
    ELSE IF \/ HasGitDir(Parent(current))
            \/ \E j \in 1..Len(workspace_files) :
                   path_exists(Parent(current), workspace_files[j])
         THEN OkPath(Parent(current))
    ELSE OtherClimbWorkspace(Parent(current), result)

\* MarkerType::OtherConfig branch
RECURSIVE OtherClimb(_, _)
OtherClimb(current, result) ==
    IF ClimbEnds(current) THEN OkPath(result)
    ELSE IF HasGitDir(Parent(current)) THEN OkPath(Parent(current))
    ELSE OtherClimb(Parent(current), result)

\* --------------------------------------------------------------- dedup rule
\* variant: no exception for the direct parent
ExcludesAnyAncestor(known_project, project_root) ==
    StartsWith(project_root, known_project)

\* the body of "for known_project in projects.iter()"
Excludes(known_project, project_root) ==
    LET is_direct_parent ==
            HasParent(project_root) /\ Parent(project_root) = known_project
    IN  \/ project_root = known_project
        \/ StartsWith(project_root, known_project) /\ ~is_direct_parent

\* variant: only a path equal to the candidate excludes it
ShouldAddUnlessEqual(project_root, projects) == project_root \notin projects

\* should_add after the loop over the set that was read
RECURSIVE ShouldAdd(_, _)
ShouldAdd(project_root, projects) ==
    IF projects = {} THEN TRUE
    ELSE LET known_project == CHOOSE x \in projects : TRUE
         IN  IF Excludes(known_project, project_root) THEN FALSE
             ELSE ShouldAdd(project_root, projects \ {known_project})

\* ------------------------------------------------------------------- locks
\* tokio::sync::RwLock guards: the lock and the mode
Guard(lock, mode) == [lock |-> lock, mode |-> mode]

\* the caller of find_projects, as a holder of guards
MainTask == 0

\* lock.read().await completes: nobody holds a write guard of the lock
CanRead(lock) == \A u \in DOMAIN held : Guard(lock, "write") \notin held[u]

\* lock.write().await completes: nobody holds a guard of the lock
CanWrite(lock) ==
    \A u \in DOMAIN held :
        Guard(lock, "read") \notin held[u] /\ Guard(lock, "write") \notin held[u]

\* ------------------------------------------------------------------- tasks
NoMarker == [tag |-> "", name |-> ""]

\* a task before it is spawned: the future of "spawn(async move {...})"
NewTask(path) ==
    [pc |-> "unspawned", path |-> path, err |-> NoError,
     git_repos |-> {}, marker_map |-> << >>, order |-> << >>,
     todo |-> << >>,
     dir |-> << >>, marker_type |-> NoMarker, current |-> << >>,
     project_root |-> << >>, is_ws |-> FALSE, resolved |-> {}]

Terminated(t) == task[t].pc \in { "ok", "failed" }

\* variant: a failing task keeps its permit
FailKeepingPermit(t, e) ==
    /\ task' = [task EXCEPT ![t].pc = "failed", ![t].err = e]
    /\ permits' = permits

\* the task returns Err(e): the permit is dropped with the task
Fail(t, e) ==
    /\ task' = [task EXCEPT ![t].pc = "failed", ![t].err = e]
    /\ permits' = permits + 1

\* variant: the task does not wait for a free permit
AcquirePermitUnguarded(t) ==
    /\ task[t].pc = "acquire"
    /\ permits' = IF permits > 0 THEN permits - 1 ELSE 0
    /\ task' = [task EXCEPT ![t].pc = "git"]
    /\ UNCHANGED << config, fs, env, discovered_projects, workspace_cache,
                    root_cache, mainpc, nextPath, returned, rootReturns,
                    wsReturns, markerChecks, rerun, prevResult, prevOrders,
                    held >>

\* semaphore_clone.acquire().await
AcquirePermit(t) ==
    /\ task[t].pc = "acquire"
    /\ permits > 0
    /\ permits' = permits - 1
    /\ task' = [task EXCEPT ![t].pc = "git"]
    /\ UNCHANGED << config, fs, env, discovered_projects, workspace_cache,
                    root_cache, mainpc, nextPath, returned, rootReturns,
                    wsReturns, markerChecks, rerun, prevResult, prevOrders,
                    held >>

\* process_directory: find_git_repos(...).await?
FindGitRepos(t) ==
    /\ task[t].pc = "git"
    /\ IF env[t].git = "error"
       THEN Fail(t, ErrFindGit)
       ELSE /\ task' = [task EXCEPT
                  ![t].pc = "extend",
                  ![t].git_repos =
                      IF env[t].git = "nonzero" THEN {}
                      ELSE GitRepos(task[t].path, config.depth)]
            /\ UNCHANGED permits
    /\ UNCHANGED << config, fs, env, discovered_projects, workspace_cache,
                    root_cache, mainpc, nextPath, returned, rootReturns,
                    wsReturns, markerChecks, rerun, prevResult, prevOrders,
                    held >>

\* variant: the git roots are not written before the marker search
ExtendGitReposDeferred(t) ==
    /\ task[t].pc = "extend"
    /\ task' = [task EXCEPT ![t].pc = "files"]
    /\ UNCHANGED << config, fs, env, discovered_projects, workspace_cache,
                    root_cache, permits, mainpc, nextPath, returned,
                    rootReturns, wsReturns, markerChecks, rerun, prevResult,
                    prevOrders, held >>

\* variant: git roots go through the dedup rule like marker roots
ExtendGitReposDeduped(t) ==
    /\ task[t].pc = "extend"
    /\ discovered_projects' = discovered_projects \cup
           { g \in task[t].git_repos :
               \A known \in discovered_projects :
                   ~(StartsWith(g, known)
                       /\ ~(HasParent(g) /\ Parent(g) = known)) }
    /\ task' = [task EXCEPT ![t].pc = "files"]
    /\ UNCHANGED << config, fs, env, workspace_cache, root_cache, permits,
                    mainpc, nextPath, returned, rootReturns, wsReturns,
                    markerChecks, rerun, prevResult, prevOrders,
                    held >>

\* process_directory: discovered_projects.write().await.extend(git_repos)
ExtendGitRepos(t) ==
    /\ task[t].pc = "extend"
    /\ CanWrite("discovered_projects")
    /\ discovered_projects' = discovered_projects \cup task[t].git_repos
    /\ task' = [task EXCEPT ![t].pc = "files"]
    /\ UNCHANGED << config, fs, env, workspace_cache, root_cache, permits,
                    mainpc, nextPath, returned, rootReturns, wsReturns,
                    markerChecks, rerun, prevResult, prevOrders,
                    held >>

\* process_directory: find_files(...).await? and the start of the loops
FindFiles(t) ==
    /\ task[t].pc = "files"
    /\ IF env[t].files = "error"
       THEN Fail(t, ErrSpawnFd)
       ELSE /\ \E lines \in FdOutput(task[t].path, config.depth,
                                     env[t].files) :
                   \E order \in IterationOrders(HitsOf(CollectMatches(lines))) :
                       task' = [task EXCEPT
                                   ![t].pc = "marker",
                                   ![t].marker_map = CollectMatches(lines),
                                   ![t].order = order,
                                   ![t].todo = order]
            /\ UNCHANGED permits
    /\ UNCHANGED << config, fs, env, discovered_projects, workspace_cache,
                    root_cache, mainpc, nextPath, returned, rootReturns,
                    wsReturns, markerChecks, rerun, prevResult, prevOrders,
                    held >>

\* process_directory: the loops are exhausted, Ok(())
TaskDone(t) ==
    /\ task[t].pc = "marker"
    /\ task[t].todo = << >>
    /\ task' = [task EXCEPT ![t].pc = "ok"]
    /\ permits' = permits + 1
    /\ UNCHANGED << config, fs, env, discovered_projects, workspace_cache,
                    root_cache, mainpc, nextPath, returned, rootReturns,
                    wsReturns, markerChecks, rerun, prevResult, prevOrders,
                    held >>

\* find_project_root returns Ok(root) to process_marker, whose locals are
\* the record locals
ReturnRoot(t, locals, key, root) ==
    /\ rootReturns' = rootReturns \cup { << key, root >> }
    /\ task' = [task EXCEPT ![t] =
          [locals EXCEPT !.pc = "check",
                         !.project_root = root,
                         !.resolved = locals.resolved \cup { root }]]

\* process_marker for the next (pattern, path): parse the marker name, then
\* find_project_root up to its first access to shared state after the
\* RootCache lookup.  The climbs of CargoToml, BuildFile and OtherConfig
\* touch the file system only.
BeginMarker(t) ==
    /\ task[t].pc = "marker"
    /\ task[t].todo # << >>
    /\ CanRead("root_cache")
    /\ LET hit == Head(task[t].todo)
           dir == Parent(hit.path)
           marker_type == MarkerFromStr(hit.pattern)
           cache_key == CacheKey(dir, marker_type)
           climb ==
               CASE marker_type.tag = "CargoToml" -> CargoClimb(dir, dir)
                 [] marker_type.tag = "BuildFile" ->
                      BuildFileClimb(marker_type.name, dir)
                 [] OTHER -> OtherClimb(dir, dir)
       IN  IF cache_key \in DOMAIN root_cache
           THEN /\ ReturnRoot(t, [task[t] EXCEPT !.dir = dir,
                                                  !.marker_type = marker_type],
                              cache_key, root_cache[cache_key])
                /\ UNCHANGED permits
           ELSE IF marker_type.tag \in { "PackageJson", "DenoJson" }
           THEN /\ task' = [task EXCEPT ![t].pc = "climb",
                                        ![t].dir = dir,
                                        ![t].marker_type = marker_type,
                                        ![t].current = dir,
                                        ![t].project_root = dir]
                /\ UNCHANGED << permits, rootReturns >>
           ELSE IF climb.err
           THEN /\ Fail(t, climb.e)
                /\ UNCHANGED rootReturns
           ELSE /\ task' = [task EXCEPT ![t].pc = "root_write",
                                        ![t].dir = dir,
                                        ![t].marker_type = marker_type,
                                        ![t].project_root = climb.val]
                /\ UNCHANGED << permits, rootReturns >>
    /\ UNCHANGED << config, fs, env, discovered_projects, workspace_cache,
                    root_cache, mainpc, nextPath, returned, wsReturns,
                    markerChecks, rerun, prevResult, prevOrders,
                    held >>

\* variant: the loop stops at .git directories only
AfterWorkspaceTestGitOnly(t, parent, is_ws) ==
    IF HasGitDir(parent)
    THEN task' = [task EXCEPT ![t].pc = "root_write",
                              ![t].project_root = parent,
                              ![t].is_ws = is_ws]
    ELSE task' = [task EXCEPT ![t].pc = "climb",
                              ![t].current = parent,
                              ![t].is_ws = is_ws]

\* after is_workspace_root(parent) returned is_ws: the rest of one
\* iteration of the PackageJson / DenoJson loop
AfterWorkspaceTest(t, parent, is_ws) ==
    IF is_ws \/ HasGitDir(parent)
    THEN task' = [task EXCEPT ![t].pc = "root_write",
                              ![t].project_root = parent,
                              ![t].is_ws = is_ws]
    ELSE task' = [task EXCEPT ![t].pc = "climb",
                              ![t].current = parent,
                              ![t].is_ws = is_ws]

\* variant: the read guard of the WorkspaceCache lookup stays alive until
\* is_workspace_root returns
ClimbStepHoldingGuard(t) ==
    /\ task[t].pc = "climb"
    /\ ClimbEnds(task[t].current) \/ CanRead("workspace_cache")
    /\ IF ClimbEnds(task[t].current)
       THEN /\ task' = [task EXCEPT ![t].pc = "root_write"]
            /\ UNCHANGED << permits, wsReturns, held >>
       ELSE LET parent == Parent(task[t].current)
                computed == ComputeWorkspaceRoot(parent)
            IN  IF parent \in DOMAIN workspace_cache
                THEN /\ AfterWorkspaceTest(t, parent, workspace_cache[parent])
                     /\ wsReturns' = wsReturns
                            \cup { << parent, workspace_cache[parent] >> }
                     /\ UNCHANGED << permits, held >>
                ELSE IF computed.err
                THEN /\ Fail(t, computed.e)
                     /\ UNCHANGED << wsReturns, held >>
                ELSE /\ task' = [task EXCEPT ![t].pc = "ws_write",
                                             ![t].is_ws = computed.val]
                     /\ held' = [held EXCEPT ![t] =
                            held[t] \cup { Guard("workspace_cache", "read") }]
                     /\ UNCHANGED << permits, wsReturns >>
    /\ UNCHANGED << config, fs, env, discovered_projects, workspace_cache,
                    root_cache, mainpc, nextPath, returned, rootReturns,
                    markerChecks, rerun, prevResult, prevOrders >>

\* one iteration of the PackageJson / DenoJson loop up to the WorkspaceCache
\* lookup of is_workspace_root(parent); on a miss the probes and content
\* matches are made and the write is left pending
ClimbStep(t) ==
    /\ task[t].pc = "climb"
    /\ ClimbEnds(task[t].current) \/ CanRead("workspace_cache")
    /\ IF ClimbEnds(task[t].current)
       THEN /\ task' = [task EXCEPT ![t].pc = "root_write"]
            /\ UNCHANGED << permits, wsReturns >>
       ELSE LET parent == Parent(task[t].current)
                computed == ComputeWorkspaceRoot(parent)
            IN  IF parent \in DOMAIN workspace_cache
                THEN /\ AfterWorkspaceTest(t, parent, workspace_cache[parent])
                     /\ wsReturns' = wsReturns
                            \cup { << parent, workspace_cache[parent] >> }
                     /\ UNCHANGED permits
                ELSE IF computed.err
                THEN /\ Fail(t, computed.e)
                     /\ UNCHANGED wsReturns
                ELSE /\ task' = [task EXCEPT ![t].pc = "ws_write",
                                             ![t].is_ws = computed.val]
                     /\ UNCHANGED << permits, wsReturns >>
    /\ UNCHANGED << config, fs, env, discovered_projects, workspace_cache,
                    root_cache, mainpc, nextPath, returned, rootReturns,
                    markerChecks, rerun, prevResult, prevOrders,
                    held >>

\* is_workspace_root: workspace_cache.write().await.insert(dir, value), the
\* return, and the rest of the iteration of the caller's loop
WorkspaceCacheWrite(t) ==
    /\ task[t].pc = "ws_write"
    /\ CanWrite("workspace_cache")
    /\ LET parent == Parent(task[t].current)
       IN  /\ workspace_cache' =
                 (parent :> task[t].is_ws) @@ workspace_cache
           /\ wsReturns' = wsReturns \cup { << parent, task[t].is_ws >> }
           /\ AfterWorkspaceTest(t, parent, task[t].is_ws)
    /\ UNCHANGED << config, fs, env, discovered_projects, root_cache,
                    permits, mainpc, nextPath, returned, rootReturns,
                    markerChecks, rerun, prevResult, prevOrders,
                    held >>

\* find_project_root: root_cache.write().await.insert(cache_key, result)
RootCacheWrite(t) ==
    /\ task[t].pc = "root_write"
    /\ CanWrite("root_cache")
    /\ LET cache_key == CacheKey(task[t].dir, task[t].marker_type)
       IN  /\ root_cache' =
                 (cache_key :> task[t].project_root) @@ root_cache
           /\ ReturnRoot(t, task[t], cache_key, task[t].project_root)
    /\ UNCHANGED << config, fs, env, discovered_projects, workspace_cache,
                    permits, mainpc, nextPath, returned, wsReturns,
                    markerChecks, rerun, prevResult, prevOrders,
                    held >>

\* process_marker: the loop over discovered_projects.read().await, and the
\* test "if should_add"
CheckKnownProjects(t) ==
    /\ task[t].pc = "check"
    /\ CanRead("discovered_projects")
    /\ LET should_add == ShouldAdd(task[t].project_root, discovered_projects)
       IN  /\ markerChecks' = markerChecks \cup
                  { [root |-> task[t].project_root,
                     known |-> discovered_projects,
                     should_add |-> should_add] }
           /\ IF should_add
              THEN task' = [task EXCEPT ![t].pc = "insert"]
              ELSE task' = [task EXCEPT ![t].pc = "marker",
                                        ![t].todo = Tail(task[t].todo)]
    /\ UNCHANGED << config, fs, env, discovered_projects, workspace_cache,
                    root_cache, permits, mainpc, nextPath, returned,
                    rootReturns, wsReturns, rerun, prevResult, prevOrders,
                    held >>

\* variant: the insert removes the entries below the inserted root
InsertProjectEvicting(t) ==
    /\ task[t].pc = "insert"
    /\ CanWrite("discovered_projects")
    /\ discovered_projects' =
           { p \in discovered_projects :
               ~StartsWith(p, task[t].project_root) }
               \cup { task[t].project_root }
    /\ task' = [task EXCEPT ![t].pc = "marker",
                            ![t].todo = Tail(task[t].todo)]
    /\ UNCHANGED << config, fs, env, workspace_cache, root_cache, permits,
                    mainpc, nextPath, returned, rootReturns, wsReturns,
                    markerChecks, rerun, prevResult, prevOrders,
                    held >>

\* process_marker: discovered_projects.write().await.insert(project_root)
InsertProject(t) ==
    /\ task[t].pc = "insert"
    /\ CanWrite("discovered_projects")
    /\ discovered_projects' =
           discovered_projects \cup { task[t].project_root }
    /\ task' = [task EXCEPT ![t].pc = "marker",
                            ![t].todo = Tail(task[t].todo)]
    /\ UNCHANGED << config, fs, env, workspace_cache, root_cache, permits,
                    mainpc, nextPath, returned, rootReturns, wsReturns,
                    markerChecks, rerun, prevResult, prevOrders,
                    held >>

\* ----------------------------------------------------------- find_projects
NoReturn == [kind |-> "", projects |-> << >>, err |-> NoError]

\* the errors collected from the joined handles, in the order of the paths
TaskErrors ==
    LET failed == SelectSeq(task, LAMBDA r : r.pc = "failed")
    IN  [i \in 1..Len(failed) |-> failed[i].err]

\* variant: fail as soon as one task failed
AnyFailed(errors) == errors # << >>

\* "Only fail if all tasks failed"
AllFailed(errors) == errors # << >> /\ Len(errors) = Len(config.paths)

\* the spawn loop: the path is a directory, its task is spawned
SpawnTask ==
    /\ mainpc = "spawn"
    /\ nextPath <= Len(config.paths)
    /\ IsDir(config.paths[nextPath])
    /\ task' = [task EXCEPT ![nextPath].pc = "acquire"]
    /\ nextPath' = nextPath + 1
    /\ UNCHANGED << config, fs, env, discovered_projects, workspace_cache,
                    root_cache, permits, mainpc, returned, rootReturns,
                    wsReturns, markerChecks, rerun, prevResult, prevOrders,
                    held >>

\* the spawn loop: the path is not a directory, return PathNotFound
RejectPath ==
    /\ mainpc = "spawn"
    /\ nextPath <= Len(config.paths)
    /\ ~IsDir(config.paths[nextPath])
    /\ returned' = [kind |-> "Err", projects |-> << >>,
                    err |-> ErrPathNotFound(config.paths[nextPath])]
    /\ mainpc' = "done"
    /\ UNCHANGED << config, fs, env, discovered_projects, workspace_cache,
                    root_cache, permits, task, nextPath, rootReturns,
                    wsReturns, markerChecks, rerun, prevResult, prevOrders,
                    held >>

\* join_all(handles).await has completed and every task failed
ReturnFirstError ==
    /\ mainpc = "spawn"
    /\ nextPath > Len(config.paths)
    /\ \A t \in Tasks : Terminated(t)
    /\ AllFailed(TaskErrors)
    /\ returned' = [kind |-> "Err", projects |-> << >>,
                    err |-> TaskErrors[1]]
    /\ mainpc' = "done"
    /\ UNCHANGED << config, fs, env, discovered_projects, workspace_cache,
                    root_cache, permits, task, nextPath, rootReturns,
                    wsReturns, markerChecks, rerun, prevResult, prevOrders,
                    held >>

\* the set collected, sorted and truncated to max_results
FinalProjects(projects) ==
    LET sorted == SortPaths(projects)
    IN  IF config.max_results > 0 /\ Len(sorted) > config.max_results
        THEN Truncate(sorted, config.max_results)
        ELSE sorted

\* variant: the set is read once the tasks are spawned
ReturnProjectsEarly ==
    /\ mainpc = "spawn"
    /\ nextPath > Len(config.paths)
    /\ ~AllFailed(TaskErrors)
    /\ CanRead("discovered_projects")
    /\ returned' = [kind |-> "Ok",
                    projects |-> FinalProjects(discovered_projects),
                    err |-> NoError]
    /\ mainpc' = "done"
    /\ UNCHANGED << config, fs, env, discovered_projects, workspace_cache,
                    root_cache, permits, task, nextPath, rootReturns,
                    wsReturns, markerChecks, rerun, prevResult, prevOrders,
                    held >>

\* join_all(handles).await has completed, not every task failed
ReturnProjects ==
    /\ mainpc = "spawn"
    /\ nextPath > Len(config.paths)
    /\ \A t \in Tasks : Terminated(t)
    /\ ~AllFailed(TaskErrors)
    /\ CanRead("discovered_projects")
    /\ returned' = [kind |-> "Ok",
                    projects |-> FinalProjects(discovered_projects),
                    err |-> NoError]
    /\ mainpc' = "done"
    /\ UNCHANGED << config, fs, env, discovered_projects, workspace_cache,
                    root_cache, permits, task, nextPath, rootReturns,
                    wsReturns, markerChecks, rerun, prevResult, prevOrders,
                    held >>

\* -------------------------------------------------------- ProjectFinder::new
\* the finder as constructed for a configuration: empty set, empty caches
NewFinder ==
    /\ discovered_projects = {}
    /\ workspace_cache = << >>
    /\ root_cache = << >>
    /\ permits = PermitCount
    /\ task = [t \in 1..Len(config.paths) |-> NewTask(config.paths[t])]
    /\ mainpc = "spawn"
    /\ nextPath = 1
    /\ returned = NoReturn
    /\ rootReturns = {}
    /\ wsReturns = {}
    /\ markerChecks = {}
    /\ held = [t \in MainTask..Len(config.paths) |-> {}]

\* the program is run a second time on the same tree with the same
\* configuration: main builds a new finder
RunAgain ==
    /\ mainpc = "done"
    /\ ~rerun
    /\ \A t \in Tasks : Terminated(t) \/ task[t].pc = "unspawned"
    /\ rerun' = TRUE
    /\ prevResult' = returned
    /\ prevOrders' = [t \in Tasks |-> task[t].order]
    /\ discovered_projects' = {}
    /\ workspace_cache' = << >>
    /\ root_cache' = << >>
    /\ permits' = PermitCount
    /\ task' = [t \in Tasks |-> NewTask(config.paths[t])]
    /\ mainpc' = "spawn"
    /\ nextPath' = 1
    /\ returned' = NoReturn
    /\ rootReturns' = {}
    /\ wsReturns' = {}
    /\ markerChecks' = {}
    /\ held' = [t \in MainTask..Len(config.paths) |-> {}]
    /\ UNCHANGED << config, fs, env >>

\* --------------------------------------------------------- initial states
RECURSIVE SubsetsUpTo(_, _)
SubsetsUpTo(S, n) ==
    IF n = 0 THEN { {} }
    ELSE LET smaller == SubsetsUpTo(S, n - 1)
         IN  smaller \cup { A \cup { x } : A \in smaller, x \in S }

\* the files a directory may carry
PlainPackageJson ==
    [name |-> "package.json", content |-> Readable(<< "\"name\": \"x\"" >>)]

WorkspacePackageJson ==
    [name |-> "package.json",
     content |-> Readable(<< "\"name\": \"x\"", "\"workspaces\": []" >>)]

UnreadablePackageJson == [name |-> "package.json", content |-> Unreadable]

Makefile == [name |-> "Makefile", content |-> Readable(<< >>)]

GoMod == [name |-> "go.mod", content |-> Readable(<< >>)]

DenoJsonImports ==
    [name |-> "deno.json", content |-> Readable(<< "\"imports\": {}" >>)]

CargoPackage ==
    [name |-> "Cargo.toml", content |-> Readable(<< "[package]" >>)]

CargoWorkspace ==
    [name |-> "Cargo.toml", content |-> Readable(<< "[workspace]" >>)]

\* a package manifest that also declares a workspace further down
CargoPackageWorkspace ==
    [name |-> "Cargo.toml",
     content |-> Readable(<< "[package]", "[workspace]" >>)]

UnreadableCargoToml == [name |-> "Cargo.toml", content |-> Unreadable]

\* files of the existence-only list of is_workspace_root
LernaJson == [name |-> "lerna.json", content |-> Readable(<< "{}" >>)]

YarnLock == [name |-> "yarn.lock", content |-> Readable(<< >>)]

\* files of the pattern table whose pattern is "."
NxJson == [name |-> "nx.json", content |-> Readable(<< "{}" >>)]

NxJsonEmpty == [name |-> "nx.json", content |-> Readable(<< >>)]

\* a file whose name contains a marker name
MakefileAm == [name |-> "Makefile.am", content |-> Readable(<< >>)]

Placements(kinds) ==
    { [dir |-> d, name |-> k.name, content |-> k.content] :
        d \in Dirs, k \in kinds }

\* at most n files, a directory holds at most one file of a name
FileSets(kinds, n) ==
    { F \in SubsetsUpTo(Placements(kinds), n) :
        \A f, g \in F : (f.dir = g.dir /\ f.name = g.name) => f = g }

\* trees of at most n files and at most MaxGit .git directories
FileSystems(kinds, n) ==
    { [git |-> g, egit |-> {}, files |-> F] :
        g \in SubsetsUpTo(Dirs, MaxGit), F \in FileSets(kinds, n) }

\* lists of at most MaxPaths configured paths
PathLists(choices) == UNION { [1..n -> choices] : n \in 0..MaxPaths }

\* the tasks of a run in which none fails are interchangeable: such a run
\* lists its paths shallowest first
ShallowestFirst(paths) ==
    \A i \in 1..(Len(paths) - 1) : Len(paths[i]) <= Len(paths[i + 1])

\* number of marker hits the tasks of the run have to process
RECURSIVE HitsFrom(_)
HitsFrom(t) ==
    IF t > Len(config.paths) THEN 0
    ELSE (IF IsDir(config.paths[t])
          THEN Cardinality(MarkerHits(config.paths[t], config.depth))
          ELSE 0) + HitsFrom(t + 1)

FirstRun ==
    /\ HitsFrom(1) <= MaxHits
    /\ NewFinder
    /\ rerun = FALSE
    /\ prevResult = NoReturn
    /\ prevOrders = << >>

\* --max-depth: direct children only, or the default
Depths == { 1, DefaultDepth }

FdOk == [git |-> "ok", files |-> "ok"]

\* an fd invocation of a task may fail to run
FdOutcomes ==
    { FdOk, [git |-> "error", files |-> "ok"],
      [git |-> "ok", files |-> "error"] }

\* runs without faults: every path exists, every fd invocation succeeds,
\* the tree holds at most n files of the given kinds
PlainRuns(pathLists, kinds, n) ==
    /\ config \in [paths : pathLists, depth : Depths, max_results : { 0 }]
    /\ fs \in FileSystems(kinds, n)
    /\ env = [t \in 1..Len(config.paths) |-> FdOk]

\* runs with a missing path or a failing fd invocation, over the trees of
\* at most n files of the given kinds
FaultRuns(pathLists, kinds, n) ==
    /\ config \in [paths : pathLists, depth : { DefaultDepth },
                   max_results : { 0 }]
    /\ fs \in FileSystems(kinds, n)
    /\ env \in [1..Len(config.paths) -> FdOutcomes]
    /\ \/ \E i \in 1..Len(config.paths) : ~IsDir(config.paths[i])
       \/ \E t \in 1..Len(config.paths) : env[t] # FdOk

SortedPathLists == { p \in PathLists(Dirs) : ShallowestFirst(p) }

\* fault-free runs over trees with files, and runs with faults over trees
\* without files
Init ==
    /\ \/ PlainRuns(SortedPathLists,
                    { PlainPackageJson, WorkspacePackageJson,
                      DenoJsonImports, Makefile, GoMod }, MaxFiles)
       \/ FaultRuns(PathLists(Dirs \cup { Missing }), {}, 0)
    /\ FirstRun

TaskStep(t) ==
    \/ AcquirePermit(t)
    \/ FindGitRepos(t)
    \/ ExtendGitRepos(t)
    \/ FindFiles(t)
    \/ BeginMarker(t)
    \/ ClimbStep(t)
    \/ WorkspaceCacheWrite(t)
    \/ RootCacheWrite(t)
    \/ CheckKnownProjects(t)
    \/ InsertProject(t)
    \/ TaskDone(t)

Next ==
    \/ SpawnTask
    \/ RejectPath
    \/ ReturnFirstError
    \/ ReturnProjects
    \/ \E t \in Tasks : TaskStep(t)

Spec == Init /\ [][Next]_vars

\* paths may be missing, fd invocations may fail, files may be unreadable
InitErr ==
    /\ \/ PlainRuns(PathLists(Dirs),
                    { PlainPackageJson, UnreadablePackageJson }, MaxFiles)
       \/ FaultRuns(PathLists(Dirs \cup { Missing }),
                    { PlainPackageJson, UnreadablePackageJson }, MaxFiles)
    /\ FirstRun

SpecErr == InitErr /\ [][Next]_vars

\* the program is run twice on the same tree with the same configuration
InitTwice ==
    /\ \/ PlainRuns(SortedPathLists,
                    { PlainPackageJson, Makefile, GoMod }, MaxFiles)
       \/ FaultRuns(PathLists(Dirs \cup { Missing }), {}, 0)
    /\ FirstRun

NextTwice == Next \/ RunAgain

SpecTwice == InitTwice /\ [][NextTwice]_vars

\* one configured path: the run is sequential, the tree holds one file more
InitSolo ==
    /\ \/ PlainRuns({ << d >> : d \in Dirs },
                    { PlainPackageJson, WorkspacePackageJson,
                      DenoJsonImports, Makefile, GoMod }, MaxFiles + 1)
       \/ FaultRuns({ << d >> : d \in Dirs \cup { Missing } }, {}, 0)
    /\ FirstRun

SpecSolo == InitSolo /\ [][Next]_vars

\* trees of Cargo and package.json manifests, readable or not
InitCargo ==
    /\ \/ PlainRuns(SortedPathLists,
                    { CargoPackage, CargoWorkspace, CargoPackageWorkspace,
                      UnreadableCargoToml, PlainPackageJson,
                      UnreadablePackageJson }, MaxFiles)
       \/ FaultRuns(PathLists(Dirs \cup { Missing }), {}, 0)
    /\ FirstRun

SpecCargo == InitCargo /\ [][Next]_vars

\* trees over the chain and the directory beside it, with directories
\* called egit: at most MaxFiles files, one file of a name per directory
WideFileSystems(kinds) ==
    { [git |-> g, egit |-> e, files |-> F] :
        g \in SubsetsUpTo(AllDirs, MaxGit),
        e \in SubsetsUpTo(AllDirs, MaxGit),
        F \in { X \in SubsetsUpTo(
                         { [dir |-> d, name |-> k.name, content |-> k.content] :
                             d \in AllDirs, k \in kinds }, MaxFiles) :
                   \A f, g \in X :
                       (f.dir = g.dir /\ f.name = g.name) => f = g } }

\* one configured path, the root of the tree; --max-results is set or not
InitWide ==
    /\ \/ /\ config \in [paths : { << << "/" >> >> },
                          depth : { DefaultDepth },
                          max_results : 0..MaxResults]
          /\ fs \in WideFileSystems({ GoMod, PlainPackageJson })
          /\ env = [t \in 1..1 |-> FdOk]
       \/ FaultRuns({ << d >> : d \in Dirs \cup { Missing } }, {}, 0)
    /\ FirstRun

SpecWide == InitWide /\ [][Next]_vars

\* more configured paths than permits
ManyTasks == PermitCount + ExtraTasks

FdGitError == [git |-> "error", files |-> "ok"]

\* ManyTasks times the root of an empty tree: the tasks of the first
\* PermitCount paths fail in find_git_repos, the others fail there or
\* succeed
ManyRuns ==
    /\ config = [paths |-> [i \in 1..ManyTasks |-> << "/" >>],
                 depth |-> DefaultDepth, max_results |-> 0]
    /\ fs = [git |-> {}, egit |-> {}, files |-> {}]
    /\ env \in { e \in [1..ManyTasks -> { FdOk, FdGitError }] :
                   \A t \in 1..PermitCount : e[t] = FdGitError }

InitMany ==
    /\ \/ ManyRuns
       \/ PlainRuns({ << d >> : d \in Dirs },
                    { PlainPackageJson, Makefile }, MaxFiles)
       \/ FaultRuns({ << d >> : d \in Dirs \cup { Missing } }, {}, 0)
    /\ FirstRun

SpecMany == InitMany /\ [][Next]_vars

\* the runtime keeps polling ready tasks, and every provider call and file
\* read returns: a step that can be taken is eventually taken
SpecManyLive == InitMany /\ [][Next]_vars /\ WF_vars(Next)

\* one configured path over trees of package.json files and the files
\* is_workspace_root looks for
InitWorkspace ==
    /\ \/ PlainRuns({ << d >> : d \in Dirs },
                    { PlainPackageJson, WorkspacePackageJson,
                      UnreadablePackageJson, LernaJson, YarnLock, NxJson,
                      NxJsonEmpty }, MaxFiles + 1)
       \/ FaultRuns({ << d >> : d \in Dirs \cup { Missing } }, {}, 0)
    /\ FirstRun

SpecWorkspace == InitWorkspace /\ [][Next]_vars

\* a marker file without content
MarkerFile(name) == [name |-> name, content |-> Readable(<< >>)]

\* one configured path over trees that hold marker files of every name,
\* and manifests that declare a workspace
InitMarkers ==
    /\ \/ PlainRuns({ << d >> : d \in Dirs },
                    { MarkerFile(n) : n \in MarkerNames }
                        \cup { WorkspacePackageJson, CargoWorkspace },
                    MaxFiles)
       \/ FaultRuns({ << d >> : d \in Dirs \cup { Missing } }, {}, 0)
    /\ FirstRun

SpecMarkers == InitMarkers /\ [][Next]_vars

\* an fd invocation may exit with a non-zero status
FdExits ==
    { FdOk, [git |-> "nonzero", files |-> "ok"],
      [git |-> "ok", files |-> "nonzero"],
      [git |-> "nonzero", files |-> "nonzero"] }

\* one configured path, either fd invocation may exit with a non-zero
\* status, the tree may hold a file whose name contains a marker name
InitSearch ==
    /\ \/ /\ config \in [paths : { << d >> : d \in Dirs }, depth : Depths,
                          max_results : { 0 }]
          /\ fs \in FileSystems({ PlainPackageJson, Makefile, MakefileAm,
                                  GoMod }, MaxFiles)
          /\ env \in [1..1 -> FdExits]
       \/ FaultRuns({ << d >> : d \in Dirs \cup { Missing } }, {}, 0)
    /\ FirstRun

SpecSearch == InitSearch /\ [][Next]_vars

\* ================================================================== claims
StrictAncestor(a, b) == a # b /\ StartsWith(b, a)

DirectChild(b, a) == HasParent(b) /\ Parent(b) = a

\* a is a strict ancestor of b and b is not a direct child of a
Subsumes(a, b) == StrictAncestor(a, b) /\ ~DirectChild(b, a)

ReturnedOk == mainpc = "done" /\ returned.kind = "Ok"

ReturnedList ==
    { returned.projects[i] : i \in 1..Len(returned.projects) }

\* the roots find_git_repos has returned to the tasks
GitRootsReturned ==
    UNION { task[t].git_repos :
              t \in { u \in Tasks : task[u].pc \notin
                                      { "unspawned", "acquire", "git" } } }

\* C1 as stated - Dedup law: the list returned by find_projects
\* (max_results = 0) holds no pair A, B with A a strict ancestor of B and B
\* not a direct child of A.
C1_DedupLaw ==
    (ReturnedOk /\ config.max_results = 0) =>
        \A a, b \in ReturnedList : ~Subsumes(a, b)

\* C1 amended - in the returned list (max_results = 0), every pair A, B with
\* A a strict ancestor of B and B not a direct child of A has B a git root
\* returned by find_git_repos, or B accepted by a process_marker check that
\* read a set not containing A.
C1_DedupAtCheck ==
    (ReturnedOk /\ config.max_results = 0) =>
        \A a, b \in ReturnedList :
            Subsumes(a, b) =>
                \/ b \in GitRootsReturned
                \/ \E m \in markerChecks :
                       m.root = b /\ m.should_add /\ a \notin m.known

\* a returned list with a subsumed marker root that is no git root
C1_Witness ==
    /\ ReturnedOk
    /\ \E a, b \in ReturnedList :
           Subsumes(a, b) /\ b \notin GitRootsReturned

\* C3 - Git precedence: every directory whose .git directory find_git_repos
\* returned for some configured path is in the list returned by
\* find_projects (Ok, max_results = 0), whatever else is in the set.
C3_GitPrecedence ==
    (ReturnedOk /\ config.max_results = 0) =>
        \A d \in GitRootsReturned : d \in ReturnedList

\* a returned git root with a marker root above or below it that a check
\* accepted or that subsumes it
C3_Witness ==
    /\ ReturnedOk
    /\ \E d \in GitRootsReturned, e \in ReturnedList :
           Subsumes(e, d) \/ Subsumes(d, e)

\* the dedup rule as the claim states it: no entry equals r, and no entry
\* is a strict ancestor of r other than r's direct parent
Admissible(r, entries) ==
    /\ r \notin entries
    /\ ~\E e \in entries : StrictAncestor(e, r) /\ ~DirectChild(r, e)

ReturnsOf(returns, key) == { r[2] : r \in { x \in returns : x[1] = key } }

\* every call for a key returned the value the first call returned, and the
\* caches hold that value
C9_SameValue ==
    /\ \A r \in rootReturns :
           /\ ReturnsOf(rootReturns, r[1]) = { r[2] }
           /\ r[1] \in DOMAIN root_cache /\ root_cache[r[1]] = r[2]
    /\ \A r \in wsReturns :
           /\ ReturnsOf(wsReturns, r[1]) = { r[2] }
           /\ r[1] \in DOMAIN workspace_cache
           /\ workspace_cache[r[1]] = r[2]

\* a key present in a cache stays present with the same value
C9_WriteOnce ==
    /\ \A k \in DOMAIN root_cache :
           k \in DOMAIN root_cache' /\ root_cache'[k] = root_cache[k]
    /\ \A d \in DOMAIN workspace_cache :
           d \in DOMAIN workspace_cache'
               /\ workspace_cache'[d] = workspace_cache[d]

\* C9 - Cache correctness: for an unchanged tree every find_project_root
\* call for the same (directory, marker category and carried name) key
\* returns the value of the first completed call, every is_workspace_root
\* call for the same directory returns the same boolean, also when several
\* tasks miss concurrently and each compute and write; a key present in
\* RootCache or WorkspaceCache never changes its value.
C9_CacheCorrect == [][C9_WriteOnce]_vars /\ []C9_SameValue

\* two tasks missed the same keys: one has written RootCache and
\* WorkspaceCache entries, the other is about to write the same RootCache
\* key after computing on its own
C9_Witness ==
    \E t \in Tasks :
        /\ task[t].pc = "root_write"
        /\ CacheKey(task[t].dir, task[t].marker_type) \in DOMAIN root_cache
        /\ task[t].dir # task[t].project_root
        /\ Parent(task[t].dir) \in DOMAIN workspace_cache

\* the files of the two tables of is_workspace_root
DeclaresWorkspace(dir) ==
    \/ \E i \in 1..Len(workspace_patterns) :
           \E f \in FilesAt(dir, workspace_patterns[i].file) :
               /\ f.content.readable
               /\ RegexIsMatch(workspace_patterns[i].pattern, f.content.lines)
    \/ \E j \in 1..Len(workspace_files) :
           FilesAt(dir, workspace_files[j]) # {}

StrictAncestors(dir) ==
    { SubSeq(dir, 1, k) : k \in 1..(Len(dir) - 1) }

\* the nearest strict ancestor of dir that satisfies Q, else dir
NearestAncestor(dir, Q(_)) ==
    LET qualifying == { a \in StrictAncestors(dir) : Q(a) }
    IN  IF qualifying = {} THEN dir
        ELSE CHOOSE a \in qualifying :
                 \A b \in qualifying : Len(b) <= Len(a)

WorkspaceOrGit(a) == DeclaresWorkspace(a) \/ HasGitDir(a)

\* C10 - Workspace climbing: for a PackageJson or DenoJson marker in dir,
\* find_project_root returns the nearest strict ancestor of dir that is a
\* workspace root or contains a .git directory, and dir itself when no
\* ancestor qualifies.
C10_WorkspaceClimb ==
    \A r \in rootReturns :
        r[1][2][1] \in { "PackageJson", "DenoJson" } =>
            r[2] = NearestAncestor(r[1][1], WorkspaceOrGit)

\* root/sub/package.json with a root/package.json declaring "workspaces"
\* and no .git in root: the marker in sub resolved to root
C10_Witness ==
    \E r \in rootReturns :
        /\ r[1][2][1] = "PackageJson"
        /\ HasParent(r[1][1]) /\ r[2] = Parent(r[1][1])
        /\ ~HasGitDir(r[2])
        /\ \E f \in FilesAt(r[2], "package.json") :
               \E i \in 1..Len(f.content.lines) :
                   "\"workspaces\"" \in Needles(f.content.lines[i])

\* the topmost strict ancestor of dir that holds an entry called name, else
\* dir
TopmostCarrying(dir, name) ==
    LET carrying == { a \in StrictAncestors(dir) : FilesAt(a, name) # {} }
    IN  IF carrying = {} THEN dir
        ELSE CHOOSE a \in carrying : \A b \in carrying : Len(a) <= Len(b)

\* C11 - Build-file topmost rule: for a BuildFile(name) marker in dir,
\* find_project_root returns the nearest strict ancestor containing .git if
\* one exists; otherwise the topmost ancestor of dir that contains a file
\* named name (even if intermediate ancestors lack it), or dir itself if no
\* ancestor carries it.
C11_BuildFileTopmost ==
    \A r \in rootReturns :
        r[1][2][1] = "BuildFile" =>
            r[2] = IF \E a \in StrictAncestors(r[1][1]) : HasGitDir(a)
                   THEN NearestAncestor(r[1][1], HasGitDir)
                   ELSE TopmostCarrying(r[1][1], r[1][2][2])

\* no .git in the chain: a build marker resolved to the topmost ancestor
\* carrying the same file, past an intermediate ancestor lacking it
C11_Witness ==
    \E r \in rootReturns :
        /\ r[1][2][1] = "BuildFile"
        /\ ~\E a \in StrictAncestors(r[1][1]) : HasGitDir(a)
        /\ FilesAt(r[2], r[1][2][2]) # {}
        /\ \E b \in StrictAncestors(r[1][1]) :
               StrictAncestor(r[2], b) /\ FilesAt(b, r[1][2][2]) = {}

\* the directory holds a Cargo.toml whose content matches ^\[workspace\]
CargoWorkspaceManifest(a) ==
    \E f \in FilesAt(a, "Cargo.toml") :
        f.content.readable /\ RegexIsMatch("^\\[workspace\\]", f.content.lines)

CargoWorkspaceOrGit(a) == CargoWorkspaceManifest(a) \/ HasGitDir(a)

\* C12 - Cargo resolution: for a CargoManifest marker in dir,
\* find_project_root returns the nearest strict ancestor that contains a
\* Cargo.toml matching the [workspace] section-header pattern or contains a
\* .git directory, and dir itself when no ancestor qualifies; dir itself is
\* never tested.
C12_CargoResolution ==
    \A r \in rootReturns :
        r[1][2][1] = "CargoToml" =>
            r[2] = NearestAncestor(r[1][1], CargoWorkspaceOrGit)

\* a workspace manifest resolved to its own directory, and a manifest below
\* it resolved to that directory, which holds no .git
C12_Witness ==
    \E r, q \in rootReturns :
        /\ r[1][2][1] = "CargoToml" /\ q[1][2][1] = "CargoToml"
        /\ HasParent(r[1][1]) /\ r[2] = r[1][1]
        /\ CargoWorkspaceManifest(r[1][1])
        /\ q[1][1] # q[2] /\ q[2] = r[1][1]
        /\ ~HasGitDir(q[2])

\* some line of the directory's Cargo.toml begins with [workspace]
WorkspaceHeaderOnSomeLine(a) ==
    \E f \in FilesAt(a, "Cargo.toml") :
        /\ f.content.readable
        /\ \E i \in 1..Len(f.content.lines) :
               "[workspace]" \in Needles(f.content.lines[i])

WorkspaceHeaderOrGit(a) == WorkspaceHeaderOnSomeLine(a) \/ HasGitDir(a)

\* C13 as stated - a Cargo manifest is recognised as a workspace
\* declaration whenever some line of the file begins with [workspace],
\* whichever line that is, both by is_workspace_root and by the
\* CargoManifest branch of find_project_root.
C13_HeaderOnAnyLine ==
    /\ \A w \in wsReturns : WorkspaceHeaderOnSomeLine(w[1]) => w[2]
    /\ \A r \in rootReturns :
           r[1][2][1] = "CargoToml" =>
               r[2] = NearestAncestor(r[1][1], WorkspaceHeaderOrGit)

\* C14 - Final output: the list returned by find_projects is strictly
\* increasing in path order and is exactly the first min(N, |S|) elements
\* of the sorted discovered set S when max_results = N > 0, and all of
\* sorted S when max_results = 0.
C14_FinalOutput ==
    ReturnedOk =>
        LET L == returned.projects
            S == discovered_projects
            N == config.max_results
        IN  /\ \A i \in 1..(Len(L) - 1) : PathLess(L[i], L[i + 1])
            /\ ReturnedList \subseteq S
            /\ Len(L) = IF N > 0 /\ N < Cardinality(S) THEN N
                         ELSE Cardinality(S)
            /\ \A x \in S \ ReturnedList, y \in ReturnedList :
                   PathLess(y, x)

\* a truncated list holding two directories neither of which is above the
\* other
C14_Witness ==
    /\ ReturnedOk
    /\ config.max_results > 0
    /\ Cardinality(discovered_projects) > config.max_results
    /\ \E x, y \in ReturnedList :
           x # y /\ ~StartsWith(x, y) /\ ~StartsWith(y, x)

\* C15 as stated - Membership invariant: each element of the discovered set
\* is either the parent directory of a .git directory returned by
\* find_git_repos or the value returned by find_project_root for some
\* (marker directory, category) hit returned by find_files.
C15_Membership ==
    \A d \in discovered_projects :
        \/ d \in GitRootsReturned /\ HasGitDir(d)
        \/ \E r \in rootReturns :
               /\ r[2] = d
               /\ \E f \in fs.files :
                      /\ f.dir = r[1][1]
                      /\ f.name \in MarkerNames
                      /\ DebugFormat(MarkerFromStr(f.name)) = r[1][2]

\* the tasks that execute process_directory
Running ==
    { t \in Tasks : task[t].pc \notin
                       { "unspawned", "acquire", "ok", "failed" } }

\* permits are taken by the running tasks only; a task that holds none has
\* not touched its locals, and one task exists per path the spawn loop has
\* passed
C16_PermitAccounting ==
    /\ Cardinality(Running) <= 8
    /\ permits = 8 - Cardinality(Running)
    /\ \A t \in Tasks :
           task[t].pc \in { "unspawned", "acquire" } =>
               task[t] = [NewTask(config.paths[t]) EXCEPT !.pc = task[t].pc]
    /\ { t \in Tasks : task[t].pc # "unspawned" } = 1..(nextPath - 1)
    /\ nextPath <= Len(config.paths) + 1

\* a step that changes the discovered set or a cache is a step of a task
\* that holds a permit
C16_WritesHoldPermit ==
    (\/ discovered_projects' # discovered_projects
     \/ workspace_cache' # workspace_cache
     \/ root_cache' # root_cache)
        => \E t \in Running : task'[t] # task[t]

\* C16 - Bounded concurrency: one task is spawned per configured path, at
\* most 8 tasks execute process_directory in any reachable state; a task
\* performs no search-provider call, filesystem probe or write to shared
\* state before it holds a permit, and its permit is returned when the task
\* ends, whether it succeeded or failed.
C16_BoundedConcurrency ==
    [][C16_WritesHoldPermit]_vars /\ []C16_PermitAccounting

\* all 8 permits are taken while a task has already failed: a permit
\* returned by a failed task was taken again
C16_Witness ==
    /\ Cardinality(Running) = 8
    /\ permits = 0
    /\ \E t \in Tasks : task[t].pc = "failed"

\* the PackageJson / DenoJson climb stands at dir or at one of its
\* ancestors: it has taken at most as many steps as dir has ancestors
C18_ClimbBounded ==
    \A t \in Tasks :
        task[t].pc \in { "climb", "ws_write" } =>
            /\ StartsWith(task[t].dir, task[t].current)
            /\ Len(task[t].dir) - Len(task[t].current) <= Len(task[t].dir) - 1

\* C18 - Termination without deadlock: provided every search-provider call
\* and file read eventually returns, find_projects eventually returns for
\* any number of configured paths (including more than 8): every task
\* waiting for a permit eventually obtains one, and every ancestor climb of
\* find_project_root ends after at most as many steps as dir has
\* ancestors.
C18_Terminates ==
    /\ <>[](mainpc = "done" /\ \A t \in Tasks : task[t].pc # "acquire")
    /\ []C18_ClimbBounded

\* find_projects has returned for more paths than there are permits, and
\* every task has ended
C18_Witness ==
    /\ mainpc = "done"
    /\ Len(config.paths) > PermitCount
    /\ \A t \in Tasks : Terminated(t)
    /\ returned.kind = "Ok"

PastExtend(t) ==
    task[t].pc \notin { "unspawned", "acquire", "git", "extend" }

\* the git roots of a task are in the discovered set from the write on
C19_GitRootsPresent ==
    \A t \in Tasks :
        PastExtend(t) => task[t].git_repos \subseteq discovered_projects

\* a task that invokes find_files or checks a marker candidate acts on a set
\* that holds its git roots
C19_GitRootsBeforeStep ==
    \A t \in Tasks :
        (task[t].pc \in { "files", "check" } /\ task'[t] # task[t])
            => task[t].git_repos \subseteq discovered_projects

\* C19 - Git-first ordering inside a task: within one per-path task, all
\* git roots found under that path are inserted into the discovered set
\* before find_files is invoked and before any marker candidate of that
\* task is checked against the set.
C19_GitFirst == [][C19_GitRootsBeforeStep]_vars /\ []C19_GitRootsPresent

\* no such ordering between tasks: a task has written its git roots, and a
\* marker candidate was checked against a set lacking one of them, which by
\* the ordering inside a task was a check of another task
C19_Witness ==
    \E t \in Tasks :
        /\ PastExtend(t)
        /\ task[t].git_repos # {}
        /\ \E m \in markerChecks : ~(task[t].git_repos \subseteq m.known)

\* is_workspace_root(d) reads a file that cannot be read: an unreadable
\* file of the pattern table with no matching readable file before it
ScanReadsUnreadable(d) ==
    \E i \in 1..Len(workspace_patterns) :
        /\ \E f \in FilesAt(d, workspace_patterns[i].file) :
               ~f.content.readable
        /\ \A j \in 1..(i - 1) :
               ~\E f \in FilesAt(d, workspace_patterns[j].file) :
                    /\ f.content.readable
                    /\ RegexIsMatch(workspace_patterns[j].pattern,
                                    f.content.lines)

\* the strict ancestors of dir below a
Between(dir, a) == { b \in StrictAncestors(dir) : StrictAncestor(a, b) }

\* the climb of find_project_root for the key reads a file that cannot be
\* read before it stops
ClimbReadsUnreadable(key) ==
    LET dir == key[1]
        tag == key[2][1]
    IN  \/ /\ tag = "CargoToml"
           /\ \E a \in StrictAncestors(dir) :
                  /\ \E f \in FilesAt(a, "Cargo.toml") : ~f.content.readable
                  /\ \A b \in Between(dir, a) : ~CargoWorkspaceOrGit(b)
        \/ /\ tag \in { "PackageJson", "DenoJson" }
           /\ \E a \in StrictAncestors(dir) :
                  /\ ScanReadsUnreadable(a)
                  /\ \A b \in Between(dir, a) : ~WorkspaceOrGit(b)

ReadFailed(t) ==
    task[t].pc = "failed" /\ task[t].err.op = "Failed to read file"

\* no call that met an unreadable file returned a value or left a cache
\* entry; a task that failed on a read names an existing unreadable file,
\* keeps the failing hit and the hits after it unprocessed, and its key is
\* in no cache
C20_NoSwallow ==
    /\ \A w \in wsReturns : ~ScanReadsUnreadable(w[1])
    /\ \A d \in DOMAIN workspace_cache : ~ScanReadsUnreadable(d)
    /\ \A r \in rootReturns : ~ClimbReadsUnreadable(r[1])
    /\ \A k \in DOMAIN root_cache : ~ClimbReadsUnreadable(k)
    /\ \A t \in Tasks :
           ReadFailed(t) =>
               /\ task[t].todo # << >>
               /\ LET hit == Head(task[t].todo)
                      key == CacheKey(Parent(hit.path),
                                      MarkerFromStr(hit.pattern))
                      file == task[t].err.path
                  IN  /\ ClimbReadsUnreadable(key)
                      /\ key \notin DOMAIN root_cache
                      /\ \E f \in FilesAt(Parent(file), FileName(file)) :
                             ~f.content.readable
                      /\ key[2][1] \in { "PackageJson", "DenoJson" } =>
                             Parent(file) \notin DOMAIN workspace_cache

\* the step in which a task fails on a read writes nothing, and a failed
\* task takes no further step
C20_FailStep ==
    \A t \in Tasks :
        /\ (task[t].pc # "failed" /\ task'[t].pc = "failed"
                /\ task'[t].err.op = "Failed to read file")
              => /\ discovered_projects' = discovered_projects
                 /\ workspace_cache' = workspace_cache
                 /\ root_cache' = root_cache
                 /\ task'[t].todo = task[t].todo
        /\ task[t].pc = "failed" => task'[t] = task[t]

\* C20 - Content-match errors propagate and are not cached: if reading or
\* matching an existing candidate file fails during is_workspace_root or
\* find_project_root, the call returns the error, no entry for that key is
\* written to WorkspaceCache or RootCache, process_marker inserts nothing
\* for that hit, and the enclosing per-path task fails without processing
\* its remaining marker hits; the error is never turned into a "false" /
\* "no match" result.
C20_ErrorsPropagate == [][C20_FailStep]_vars /\ []C20_NoSwallow

\* a task failed on an unreadable manifest with a further marker hit left
\* unprocessed
C20_Witness ==
    \E t \in Tasks :
        /\ ReadFailed(t)
        /\ Len(task[t].todo) >= 2

\* what is_workspace_root returned and stored is the value of the two
\* tables; a read failure names a file that exists
C21_ValueOfTables ==
    /\ \A w \in wsReturns :
           /\ w[2] = DeclaresWorkspace(w[1])
           /\ w[1] \in DOMAIN workspace_cache
           /\ workspace_cache[w[1]] = w[2]
    /\ \A d \in DOMAIN workspace_cache :
           workspace_cache[d] = DeclaresWorkspace(d)
    /\ \A t \in Tasks :
           ReadFailed(t) =>
               FilesAt(Parent(task[t].err.path),
                       FileName(task[t].err.path)) # {}

\* a call for a directory that has an entry returns it at once: the task
\* neither fails on a read nor goes on to write the cache
C21_HitReturnsStored ==
    \A t \in Tasks :
        (/\ task[t].pc = "climb"
         /\ ~ClimbEnds(task[t].current)
         /\ Parent(task[t].current) \in DOMAIN workspace_cache
         /\ task'[t] # task[t])
            => /\ task'[t].pc \in { "climb", "root_write" }
               /\ workspace_cache' = workspace_cache
               /\ << Parent(task[t].current),
                     workspace_cache[Parent(task[t].current)] >>
                      \in wsReturns'

\* C21 - Workspace detection: on a cache miss, is_workspace_root(dir)
\* returns true if and only if some file of the (file, pattern) table exists
\* in dir and its content matches its pattern, or some file of the
\* existence-only list exists in dir; the content match is never invoked on
\* an absent file; the computed boolean is stored in WorkspaceCache, and a
\* later call for the same dir returns the stored value without any probe
\* or content match.
C21_WorkspaceDetection ==
    [][C21_HitReturnsStored]_vars /\ []C21_ValueOfTables

\* the cache holds true for a directory that only carries a file of the
\* existence-only list, and false for another directory
C21_Witness ==
    \E d, e \in DOMAIN workspace_cache :
        /\ workspace_cache[d]
        /\ ~workspace_cache[e]
        /\ \A i \in 1..Len(workspace_patterns) :
               FilesAt(d, workspace_patterns[i].file) = {}

\* the task has received the map of find_files
HasMarkerMap(t) == DOMAIN task[t].marker_map = MarkerNames

\* C22 as stated - Non-zero exit of a search is "no results": when fd exits
\* with a non-zero status, find_git_repos returns Ok with an empty list and
\* find_files returns Ok with an empty list for every pattern (no partial
\* matches), so the task does not fail and contributes no entries from that
\* search.
C22_NonZeroIsNoResults ==
    \A t \in Tasks :
        /\ (env[t].git = "nonzero" /\ task[t].pc # "failed"
              /\ task[t].pc \notin { "unspawned", "acquire", "git" })
             => task[t].git_repos = {}
        /\ (env[t].files = "nonzero" /\ HasMarkerMap(t))
             => /\ \A p \in MarkerNames : task[t].marker_map[p] = {}
                /\ task[t].resolved = {}
        /\ (env[t].git \in { "ok", "nonzero" }
              /\ env[t].files \in { "ok", "nonzero" }
              /\ \A f \in fs.files : f.content # Unreadable)
             => task[t].pc # "failed"


\* C23 - OtherConfig resolution: for an OtherConfig marker in dir,
\* find_project_root returns the nearest strict ancestor of dir that
\* contains a .git directory, and dir itself when no ancestor contains one;
\* workspace declarations and same-named marker files in ancestors have no
\* influence on the result.
C23_OtherConfigResolution ==
    \A r \in rootReturns :
        r[1][2][1] = "OtherConfig" =>
            r[2] = NearestAncestor(r[1][1], HasGitDir)

\* an OtherConfig marker resolved past an ancestor that declares a
\* workspace and carries a file of the marker's name
C23_Witness ==
    \E r \in rootReturns :
        /\ r[1][2][1] = "OtherConfig"
        /\ \E a \in StrictAncestors(r[1][1]) :
               /\ DeclaresWorkspace(a)
               /\ FilesAt(a, r[1][2][2]) # {}
               /\ r[2] # a
               /\ (r[2] = r[1][1] \/ StrictAncestor(r[2], a))


\* the tasks that have received the map of find_files and not failed since
PastFiles ==
    { t \in Tasks : task[t].pc \in { "marker", "climb", "ws_write",
                                     "root_write", "check", "insert", "ok" } }

\* C24 - find_files result shape: the returned map has exactly the
\* requested patterns as keys (a pattern with no match maps to an empty
\* list), and every path listed under key p has a file name exactly equal
\* to p; a path reported by the search tool whose file name merely contains
\* a pattern (e.g. a longer name) is placed under no key.
C24_ResultShape ==
    \A t \in PastFiles :
        LET lines == FdFileLines(task[t].path, config.depth)
            map == task[t].marker_map
        IN  /\ DOMAIN map = MarkerNames
            /\ \A p \in MarkerNames :
                   /\ map[p] \subseteq lines
                   /\ \A path \in map[p] : FileName(path) = p
                   /\ (\A l \in lines : FileName(l) # p) => map[p] = {}
                   /\ env[t].files = "ok" =>
                          \A l \in lines : FileName(l) = p => l \in map[p]
            /\ \A l \in lines :
                   FileName(l) \notin MarkerNames =>
                       \A p \in MarkerNames : l \notin map[p]

\* fd reported Makefile and Makefile.am: the first is listed under its
\* name, the second under no key, the other keys are empty
C24_Witness ==
    \E t \in PastFiles :
        LET lines == FdFileLines(task[t].path, config.depth)
        IN  /\ \E l \in lines : FileName(l) = "Makefile.am"
            /\ \E l \in lines :
                   FileName(l) = "Makefile"
                     /\ task[t].marker_map["Makefile"] = { l }
            /\ task[t].marker_map["go.mod"] = {}


\* the tasks that are inside process_marker, for the hit at the head of
\* their queue
InProcessMarker ==
    { t \in Tasks : task[t].pc \in { "climb", "ws_write", "root_write",
                                     "check", "insert" } }

\* C25 - Classification is total: parsing any marker file name yields
\* exactly one MarkerType and never an error, so process_marker never
\* panics on a find_files key; package.json -> PackageJson, Cargo.toml ->
\* CargoToml, deno.json and deno.jsonc -> DenoJson,
\* Makefile/CMakeLists.txt/justfile/Justfile -> BuildFile carrying that
\* name, and every other name (including go.mod, pyproject.toml,
\* pnpm-workspace.yaml, lerna.json, bunfig.toml) -> OtherConfig carrying
\* that name.
C25_ClassificationTotal ==
    /\ \A t \in InProcessMarker :
           LET s == Head(task[t].todo).pattern
               m == task[t].marker_type
           IN  /\ s = "package.json" => m.tag = "PackageJson"
               /\ s = "Cargo.toml" => m.tag = "CargoToml"
               /\ s \in { "deno.json", "deno.jsonc" } => m.tag = "DenoJson"
               /\ s \in { "Makefile", "CMakeLists.txt", "justfile",
                          "Justfile" } =>
                      m.tag = "BuildFile" /\ m.name = s
               /\ s \in { "go.mod", "pyproject.toml", "pnpm-workspace.yaml",
                          "lerna.json", "bunfig.toml" } =>
                      m.tag = "OtherConfig" /\ m.name = s
               /\ m.tag \in { "PackageJson", "CargoToml", "DenoJson",
                              "BuildFile", "OtherConfig" }
    /\ \A t \in Tasks :
           task[t].pc = "failed" =>
               task[t].err.op \in { "Failed to find git repositories",
                                    "Failed to spawn fd",
                                    "Failed to read file" }

\* a deno.jsonc hit and a bunfig.toml hit of one task have been classified
C25_Witness ==
    \E t \in InProcessMarker :
        /\ Head(task[t].todo).pattern = "bunfig.toml"
        /\ task[t].marker_type.tag = "OtherConfig"
        /\ \E i \in 1..Len(task[t].order) :
               /\ task[t].order[i].pattern = "deno.jsonc"
               /\ \E r \in rootReturns :
                      /\ r[1][1] = Parent(task[t].order[i].path)
                      /\ r[1][2][1] = "DenoJson"


\* C26 as stated - the check and the insert of process_marker are atomic
\* with respect to other tasks: at the moment a marker candidate R is
\* inserted, the discovered set contains no entry that would have caused R
\* to be rejected by the dedup rule.
C26_CheckInsertAtomic ==
    [][\A t \in Tasks :
           (task[t].pc = "insert" /\ task'[t].pc # "insert") =>
               Admissible(task[t].project_root, discovered_projects)]_vars


\* C27 - the discovered set only grows: no operation removes an element,
\* so a path once inserted stays in the set in every later state and is in
\* the returned list when max_results = 0; in particular the later
\* insertion of an ancestor never evicts a descendant inserted earlier.
C27_OnlyGrows ==
    /\ [][discovered_projects \subseteq discovered_projects']_vars
    /\ []((ReturnedOk /\ config.max_results = 0) =>
              /\ discovered_projects \subseteq ReturnedList
              /\ \A c \in markerChecks :
                     /\ c.known \subseteq ReturnedList
                     /\ c.should_add => c.root \in ReturnedList)

\* a marker root was accepted while a descendant it subsumes was in the
\* set, and the run returned both
C27_Witness ==
    /\ ReturnedOk
    /\ \E c \in markerChecks :
           /\ c.should_add
           /\ c.root \in ReturnedList
           /\ \E b \in c.known : Subsumes(c.root, b) /\ b \in ReturnedList


\* root is dir or a strict ancestor of dir, and not a strict ancestor of
\* the nearest strict ancestor of dir that contains .git
WithinBoundary(dir, root) ==
    /\ root = dir \/ StrictAncestor(root, dir)
    /\ (\E a \in StrictAncestors(dir) : HasGitDir(a)) =>
           ~StrictAncestor(root, NearestAncestor(dir, HasGitDir))

\* C28 - for every marker category and every dir, the value returned by
\* find_project_root (and every value stored in RootCache for key (dir,
\* category)) is dir itself or a strict ancestor of dir, and is never a
\* strict ancestor of the nearest strict ancestor of dir that contains a
\* .git directory (the climb never passes a version-control boundary).
C28_WithinBoundary ==
    /\ \A r \in rootReturns : WithinBoundary(r[1][1], r[2])
    /\ \A k \in DOMAIN root_cache : WithinBoundary(k[1], root_cache[k])

\* a build marker stopped at the .git ancestor although an ancestor above
\* it carries the marker's file, and the value is in the cache
C28_Witness ==
    \E r \in rootReturns :
        /\ r[1][2][1] = "BuildFile"
        /\ r[2] # r[1][1]
        /\ HasGitDir(r[2])
        /\ r[1] \in DOMAIN root_cache
        /\ \E a \in StrictAncestors(r[2]) : FilesAt(a, r[1][2][2]) # {}


\* C29 - when find_projects returns Ok, the returned list is computed from
\* the discovered set only after every task spawned by that call has
\* terminated; no task of that call writes to the discovered set at or
\* after the moment the set is read for the result.
C29_ReadAfterJoin ==
    /\ []((mainpc = "done" /\ returned.kind = "Ok") =>
              /\ \A t \in Tasks : task[t].pc \in { "ok", "failed" }
              /\ ReturnedList = discovered_projects)
    /\ [][(mainpc' = "done" /\ returned'.kind = "Ok") =>
              discovered_projects' = discovered_projects]_vars

\* the call returned Ok after two tasks had written to the set, one of
\* which failed later
C29_Witness ==
    /\ ReturnedOk
    /\ \E t, u \in Tasks :
           /\ task[t].pc = "ok" /\ task[t].resolved # {}
           /\ task[u].pc = "failed" /\ task[u].git_repos # {}
           /\ task[u].git_repos \subseteq ReturnedList
           /\ task[t].resolved \cap ReturnedList # {}


AllPathsValid == \A i \in 1..Len(config.paths) : IsDir(config.paths[i])

FailedTasks == { t \in Tasks : task[t].pc = "failed" }

\* C5 - All-or-partial failure policy: once every configured path has
\* passed validation, find_projects returns an error if and only if there
\* is at least one task and every task failed, and the error is that of the
\* first failed task in configured-path order; otherwise it returns Ok with
\* the sorted contents of the discovered set.
C5_FailurePolicy ==
    (mainpc = "done" /\ AllPathsValid) =>
        /\ returned.kind = "Err" <=> (Tasks # {} /\ FailedTasks = Tasks)
        /\ returned.kind = "Err" =>
               \E t \in FailedTasks :
                   /\ \A u \in FailedTasks : t <= u
                   /\ returned.err = task[t].err
        /\ returned.kind # "Err" =>
               /\ returned.kind = "Ok"
               /\ returned.projects = SortPaths(discovered_projects)

\* every task failed, the first and the second with different errors, and
\* the first one's error was returned
C5_Witness ==
    /\ mainpc = "done"
    /\ Len(config.paths) >= 2
    /\ FailedTasks = Tasks
    /\ task[1].err # task[2].err
    /\ returned.kind = "Err"

C7_ValidationFirst ==
    (mainpc = "done" /\ returned.err.kind = "PathNotFound") =>
        /\ \A t \in Tasks : task[t].pc = "unspawned"
        /\ discovered_projects = {}
        /\ workspace_cache = << >>
        /\ root_cache = << >>

\* C4 as stated - Idempotence: two runs of discovery over the same
\* unchanged tree with the same configuration return identical lists.
C4_Idempotent ==
    (rerun /\ mainpc = "done") => returned = prevResult

\* C2 as stated - Determinism under concurrency: for a fixed tree and
\* configuration the returned list is the same for every interleaving of
\* the per-path tasks: two runs in which every task iterates its marker
\* hits in the same order return the same list.
C2_Deterministic ==
    (rerun /\ mainpc = "done"
        /\ prevOrders = [t \in Tasks |-> task[t].order])
        => returned = prevResult

====
